---- MODULE Spec2Model ----
(***************************************************************************)
(* A model of the forecasting application in src/forecast_app.py: the      *)
(* Streamlit session (widgets, session state, one script run per user      *)
(* interaction) and the pipeline it drives: column detection, validation,  *)
(* prepare_time_series and generate_forecast.                              *)
(*                                                                         *)
(* Calendar days are integers yyyymmdd, so that integer order is           *)
(* chronological order.  A timestamp is a day plus an offset ns within the *)
(* day (pandas reads a number as nanoseconds since 1970-01-01).            *)
(***************************************************************************)
EXTENDS Integers, Sequences, FiniteSets, TLC

(***************************************************************************)
(* Bounds of the model.                                                    *)
(***************************************************************************)
\* rows of the largest uploaded table
MaxRows == 25
\* chart images left in the temporary directory in the course of a session
MaxTempFiles == 2

(***************************************************************************)
(* Program constants.                                                      *)
(***************************************************************************)
SeasonalMinObs == 24
DampedMinObs == 12
IndicatorMinObs == 6
MinHorizon == 1
MaxHorizon == 12
DefaultHorizon == 6
SampleSize == 5
SampleRows == 24
SampleStepDays == 30

None == "None"

\* an optional value is a sequence of length 0 or 1
Absent == << >>
Some(x) == << x >>

(***************************************************************************)
(* Calendar.                                                               *)
(***************************************************************************)
Year(d) == d \div 10000
Month(d) == (d \div 100) % 100
Day(d) == d % 100
MkDate(y, m, d) == y * 10000 + m * 100 + d

IsLeap(y) == (y % 4 = 0 /\ y % 100 # 0) \/ y % 400 = 0

DaysInMonth(y, m) ==
    IF m = 2 THEN (IF IsLeap(y) THEN 29 ELSE 28)
    ELSE IF m \in {4, 6, 9, 11} THEN 30 ELSE 31

Min2(a, b) == IF a < b THEN a ELSE b

\* the first day of the month after the month of d
FirstOfNextMonth(d) ==
    IF Month(d) < 12 THEN MkDate(Year(d), Month(d) + 1, 1) ELSE MkDate(Year(d) + 1, 1, 1)

\* datetime + timedelta(days=k), month by month
RECURSIVE AddDays(_, _)
AddDays(d, k) ==
    IF Day(d) + k <= DaysInMonth(Year(d), Month(d)) THEN d + k
    ELSE AddDays(FirstOfNextMonth(d), k - (DaysInMonth(Year(d), Month(d)) - Day(d) + 1))

\* d + pd.DateOffset(months=k): same day of the k-th next month, clipped to
\* the length of that month
AddMonths(d, k) ==
    LET mi == Year(d) * 12 + (Month(d) - 1) + k
        y  == mi \div 12
        m  == (mi % 12) + 1
    IN  MkDate(y, m, Min2(Day(d), DaysInMonth(y, m)))

\* freq='MS': a day is on the offset iff it is the first of its month
IsMonthStart(d) == Day(d) = 1

\* MonthBegin.rollforward
RollToMonthStart(d) ==
    IF IsMonthStart(d) THEN d ELSE MkDate(Year(AddMonths(d, 1)), Month(AddMonths(d, 1)), 1)

\* the month start after a month start
NextMonthStart(d) == MkDate(Year(AddMonths(d, 1)), Month(AddMonths(d, 1)), 1)

RECURSIVE MonthStarts(_, _)
MonthStarts(d, k) ==
    IF k = 0 THEN << >> ELSE << d >> \o MonthStarts(NextMonthStart(d), k - 1)

\* pd.date_range(start=start, periods=periods, freq='MS'), days only
DateRangeMS(start, periods) == MonthStarts(RollToMonthStart(start), periods)

(***************************************************************************)
(* Timestamps.                                                             *)
(***************************************************************************)
TS(d, ns) == [d |-> d, ns |-> ns]

TsLess(a, b) == a.d < b.d \/ (a.d = b.d /\ a.ns < b.ns)
TsLeq(a, b) == ~TsLess(b, a)

NaT == TS(0, 0)

(***************************************************************************)
(* Cells of a loaded spreadsheet.                                          *)
(*   num : a number                 ts  : a date-typed cell                *)
(*   nan : an empty cell            txt : text that is no date, no number  *)
(*   str : text of three numeric fields p joined by sep, as "2024-01-15"   *)
(*         or "15/01/2024"                                                 *)
(***************************************************************************)
Num(x) == [k |-> "num", x |-> x, sep |-> "", p |-> << >>]
Stamp(d) == [k |-> "ts", x |-> d, sep |-> "", p |-> << >>]
NaN == [k |-> "nan", x |-> 0, sep |-> "", p |-> << >>]
Txt == [k |-> "txt", x |-> 0, sep |-> "", p |-> << >>]
Str(sep, p) == [k |-> "str", x |-> 0, sep |-> sep, p |-> p]

IsNull(c) == c.k = "nan"

Column(name, cells) == [name |-> name, cells |-> cells]

\* df.columns
ColumnNames(df) == [i \in 1..Len(df) |-> df[i].name]

\* len(df)
NumRows(df) == Len(df[1].cells)

\* df[col]
Col(df, name) == (CHOOSE i \in 1..Len(df) : df[i].name = name)

Cells(df, name) == df[Col(df, name)].cells

SeqToSet(s) == {s[i] : i \in 1..Len(s)}

(***************************************************************************)
(* Column types, as pandas infers them when the sheet is loaded.           *)
(***************************************************************************)
Kinds(cells) == {cells[i].k : i \in 1..Len(cells)}

\* pd.api.types.is_datetime64_any_dtype(df[col])
IsDatetimeDtype(cells) == Kinds(cells) \subseteq {"ts", "nan"} /\ "ts" \in Kinds(cells)

\* pd.api.types.is_numeric_dtype(df[col]); an all-empty column is float64
IsNumericDtype(cells) == Kinds(cells) \subseteq {"num", "nan"}

(***************************************************************************)
(* Date parsing.  Five of the fourteen formats of common_formats are       *)
(* modelled, in the order of the list; 0 stands for "does not parse".      *)
(***************************************************************************)
common_formats == << "%Y-%m-%d", "%d/%m/%Y", "%m/%d/%Y", "%d-%m-%Y", "%Y-%m-%d %H:%M:%S" >>

ValidYMD(y, m, d) ==
    /\ y >= 1000 /\ y <= 9999
    /\ m >= 1 /\ m <= 12
    /\ d >= 1 /\ d <= DaysInMonth(y, m)

DateOrZero(y, m, d) == IF ValidYMD(y, m, d) THEN MkDate(y, m, d) ELSE 0

\* pd.to_datetime(str(val), format=fmt) of one cell: the day, or 0 when it raises.
\* str() of a date-typed cell is "2024-01-15 00:00:00"; str() of a number has no
\* separators.
ParseWith(c, fmt) ==
    IF c.k = "ts" THEN (IF fmt = "%Y-%m-%d %H:%M:%S" THEN c.x ELSE 0)
    ELSE IF c.k # "str" THEN 0
    ELSE IF fmt = "%Y-%m-%d" /\ c.sep = "-" THEN DateOrZero(c.p[1], c.p[2], c.p[3])
    ELSE IF fmt = "%d/%m/%Y" /\ c.sep = "/" THEN DateOrZero(c.p[3], c.p[2], c.p[1])
    ELSE IF fmt = "%m/%d/%Y" /\ c.sep = "/" THEN DateOrZero(c.p[3], c.p[1], c.p[2])
    ELSE IF fmt = "%d-%m-%Y" /\ c.sep = "-" THEN DateOrZero(c.p[3], c.p[2], c.p[1])
    ELSE 0

\* series.dropna()
RECURSIVE DropNull(_)
DropNull(cells) ==
    IF cells = << >> THEN << >>
    ELSE IF IsNull(Head(cells)) THEN DropNull(Tail(cells))
    ELSE << Head(cells) >> \o DropNull(Tail(cells))

\* .head(k)
HeadN(s, k) == SubSeq(s, 1, Min2(k, Len(s)))

RECURSIVE FirstFormat(_, _)
FirstFormat(sample, i) ==
    IF i > Len(common_formats) THEN None
    ELSE IF \A j \in 1..Len(sample) : ParseWith(sample[j], common_formats[i]) # 0
         THEN common_formats[i]
    ELSE FirstFormat(sample, i + 1)

infer_date_format(cells) ==
    LET sample == HeadN(DropNull(cells), SampleSize)
    IN  IF Len(sample) = 0 THEN None ELSE FirstFormat(sample, 1)

\* one element of pd.to_datetime(series) without a format: a number is read as
\* nanoseconds since the epoch, text is parsed month-first where both readings
\* are possible
GenericParse(c) ==
    IF c.k = "ts" THEN TS(c.x, 0)
    ELSE IF c.k = "num" THEN TS(19700101, c.x)
    ELSE IF c.k # "str" THEN NaT
    ELSE LET iso == IF c.sep = "-" THEN DateOrZero(c.p[1], c.p[2], c.p[3]) ELSE 0
             mdy == DateOrZero(c.p[3], c.p[1], c.p[2])
             dmy == DateOrZero(c.p[3], c.p[2], c.p[1])
         IN  IF iso # 0 THEN TS(iso, 0)
             ELSE IF mdy # 0 THEN TS(mdy, 0)
             ELSE IF dmy # 0 THEN TS(dmy, 0)
             ELSE NaT

\* one element of pd.to_datetime(series, format=fmt); a date-typed column is
\* returned as it is
FormatParse(c, fmt) ==
    IF c.k = "ts" THEN TS(c.x, 0)
    ELSE IF ParseWith(c, fmt) # 0 THEN TS(ParseWith(c, fmt), 0)
    ELSE NaT

\* pd.to_datetime(series, format=fmt, errors='coerce'), fmt possibly None
to_datetime(cells, fmt) ==
    [i \in 1..Len(cells) |->
        IF fmt = None THEN GenericParse(cells[i]) ELSE FormatParse(cells[i], fmt)]

\* the same call without errors='coerce' raises on the first element that is
\* neither empty nor parseable
to_datetime_raises(cells, fmt) ==
    \E i \in 1..Len(cells) : ~IsNull(cells[i]) /\ to_datetime(cells, fmt)[i] = NaT

\* parsed.notna().sum()
NotNaCount(parsed) == Cardinality({i \in 1..Len(parsed) : parsed[i] # NaT})

(***************************************************************************)
(* Numeric coercion.                                                       *)
(***************************************************************************)
\* pd.to_numeric(series, errors='raise') raises
to_numeric_raises(cells) == ~IsNumericDtype(cells) /\ ~IsDatetimeDtype(cells)

\* pd.to_numeric(series, errors='coerce'): what does not convert becomes NaN.
\* A date-typed cell converts to its integer representation, for which the day
\* number stands here.
to_numeric(cells) ==
    [i \in 1..Len(cells) |->
        IF cells[i].k = "num" THEN cells[i]
        ELSE IF cells[i].k = "ts" /\ IsDatetimeDtype(cells) THEN Num(cells[i].x)
        ELSE NaN]

(***************************************************************************)
(* Column Classifier.                                                      *)
(***************************************************************************)
\* the column names of the model whose lower case contains one of date_keywords,
\* and those whose lower case contains one of value_keywords
date_keyword_names == {"Date", "Period"}
value_keyword_names == {"Revenue", "Amount"}

\* the column labels that are numbers, not text (a header cell holding 2023)
number_headers == {"2023"}

\* col.lower() raises AttributeError on a label that is no text
lower_raises(name) == name \in number_headers

\* the auto-detection of main raises: detect_date_column calls col.lower() on
\* every label, outside its try block
detection_raises(df) == \E i \in 1..Len(df) : lower_raises(df[i].name)

RECURSIVE SelectSeq2(_, _, _)
SelectSeq2(s, Test(_, _), arg) ==
    IF s = << >> THEN << >>
    ELSE IF Test(Head(s), arg) THEN << Head(s) >> \o SelectSeq2(Tail(s), Test, arg)
    ELSE SelectSeq2(Tail(s), Test, arg)

\* the date test with the ratio 0.8 itself accepted
ParsesAsDatesInclusive(cells) ==
    NotNaCount(to_datetime(cells, infer_date_format(cells))) * 10 >= 8 * Len(cells)

\* a column that is not numeric passes the date test of detect_date_column
ParsesAsDates(cells) ==
    NotNaCount(to_datetime(cells, infer_date_format(cells))) * 10 > 8 * Len(cells)

\* sample.between(1900, 2100).all() over the first ten values of a numeric column
looks_like_years(cells) ==
    \A i \in 1..Len(HeadN(DropNull(cells), 10)) :
        /\ HeadN(DropNull(cells), 10)[i].x >= 1900
        /\ HeadN(DropNull(cells), 10)[i].x <= 2100

\* the date test with a numeric column skipped only when it looks like years
IsDateCandidateYearsSkipped(col, kw) ==
    /\ (col.name \in date_keyword_names) = kw
    /\ \/ IsDatetimeDtype(col.cells)
       \/ /\ ~(IsNumericDtype(col.cells) /\ looks_like_years(col.cells))
          /\ ParsesAsDates(col.cells)

\* a numeric column is skipped whether or not it looks like years: both
\* branches of the test continue with the next column
IsDateCandidate(col, kw) ==
    /\ (col.name \in date_keyword_names) = kw
    /\ \/ IsDatetimeDtype(col.cells)
       \/ /\ ~IsNumericDtype(col.cells)
          /\ ParsesAsDates(col.cells)

\* the first qualifying column in column order, keyword or not
detect_date_column_in_order(df) ==
    LET Qualifies(col, any) == IsDateCandidate(col, TRUE) \/ IsDateCandidate(col, FALSE)
        all_date_cols == SelectSeq2(df, Qualifies, TRUE)
    IN  IF all_date_cols # << >> THEN all_date_cols[1].name ELSE None

detect_date_column(df) ==
    LET keyword_matches == SelectSeq2(df, IsDateCandidate, TRUE)
        date_columns == SelectSeq2(df, IsDateCandidate, FALSE)
        all_date_cols == keyword_matches \o date_columns
    IN  IF all_date_cols # << >> THEN all_date_cols[1].name ELSE None

IsNumericCandidate(col, exclude_col) ==
    /\ col.name # exclude_col
    /\ (IsNumericDtype(col.cells) \/ ~to_numeric_raises(col.cells))

detect_numeric_columns(df, exclude_col) ==
    ColumnNames(SelectSeq2(df, IsNumericCandidate, exclude_col))

NameIsValueKeyword(name, kw) == (name \in value_keyword_names) = kw

\* the first candidate, keyword or not
suggest_first_column(numeric_columns) ==
    IF numeric_columns = << >> THEN None ELSE numeric_columns[1]

suggest_value_column(numeric_columns) ==
    LET keyword_matches == SelectSeq2(numeric_columns, NameIsValueKeyword, TRUE)
        other_cols == SelectSeq2(numeric_columns, NameIsValueKeyword, FALSE)
    IN  IF numeric_columns = << >> THEN None
        ELSE IF keyword_matches # << >> THEN keyword_matches[1]
        ELSE IF other_cols # << >> THEN other_cols[1]
        ELSE None

(***************************************************************************)
(* Series Builder.                                                         *)
(***************************************************************************)
\* a series is a sequence of entries: a timestamp t and a value v, which is
\* missing (NaN) when na holds
Entry(t, c) == [t |-> t, v |-> c.x, na |-> IsNull(c)]

\* ts_df.dropna() over the two columns, row by row
RECURSIVE DropNa(_, _, _)
DropNa(dates, values, i) ==
    IF i > Len(dates) THEN << >>
    ELSE IF dates[i] = NaT \/ IsNull(values[i]) THEN DropNa(dates, values, i + 1)
    ELSE << Entry(dates[i], values[i]) >> \o DropNa(dates, values, i + 1)

\* insertion that drops an entry whose timestamp is already present
RECURSIVE InsertSortedUnique(_, _)
InsertSortedUnique(sorted, e) ==
    IF sorted = << >> THEN << e >>
    ELSE IF e.t = Head(sorted).t THEN sorted
    ELSE IF TsLess(e.t, Head(sorted).t) THEN << e >> \o sorted
    ELSE << Head(sorted) >> \o InsertSortedUnique(Tail(sorted), e)

\* insertion of e behind the entries that are not later than it
RECURSIVE InsertSorted(_, _)
InsertSorted(sorted, e) ==
    IF sorted = << >> THEN << e >>
    ELSE IF TsLess(e.t, Head(sorted).t) THEN << e >> \o sorted
    ELSE << Head(sorted) >> \o InsertSorted(Tail(sorted), e)

\* ts_df.sort_values(date_col); entries of equal timestamp keep their order
RECURSIVE SortByDate(_, _)
SortByDate(rows, i) ==
    IF i = 0 THEN << >> ELSE InsertSorted(SortByDate(rows, i - 1), rows[i])

\* the rows left in sheet order
sort_values_skipped(rows) == rows

sort_values(rows) == SortByDate(rows, Len(rows))

\* prepare_time_series raises where pd.to_datetime is called without
\* errors='coerce'
prepare_raises(df, date_col, value_col) ==
    to_datetime_raises(Cells(df, date_col), infer_date_format(Cells(df, date_col)))

prepare_time_series(df, date_col, value_col) ==
    LET dates == to_datetime(Cells(df, date_col), infer_date_format(Cells(df, date_col)))
        values == to_numeric(Cells(df, value_col))
    IN  sort_values(DropNa(dates, values, 1))

(***************************************************************************)
(* Forecast Engine.                                                        *)
(***************************************************************************)
Seasonal == [trend |-> "add", seasonal |-> "add", seasonal_periods |-> 12, damped_trend |-> TRUE]
Damped == [trend |-> "add", seasonal |-> "None", seasonal_periods |-> 0, damped_trend |-> TRUE]
Simple == [trend |-> "add", seasonal |-> "None", seasonal_periods |-> 0, damped_trend |-> FALSE]

\* the selection with the seasonal threshold taken exclusive
ModelConfigExclusive(n_obs) ==
    IF n_obs > SeasonalMinObs THEN Seasonal
    ELSE IF n_obs >= DampedMinObs THEN Damped
    ELSE Simple

\* the configuration generate_forecast passes to ExponentialSmoothing
ModelConfig(n_obs) ==
    IF n_obs >= SeasonalMinObs THEN Seasonal
    ELSE IF n_obs >= DampedMinObs THEN Damped
    ELSE Simple

\* ExponentialSmoothing(...).fit() is external.  It is a function of the series
\* and the configuration; it raises on a series too short to initialise level
\* and trend from its first two observations.
FitRaises(series, config) == Len(series) < 2

\* fitted_model.forecast(k): k values, a function of the series and the
\* configuration.  The numbers stand for the solver's: the last value continued
\* along the last step, the step taken once when the trend is damped, and the
\* value of a season earlier added when seasonal.
SolverForecast(series, config, k) ==
    LET n == Len(series)
        step == series[n].v - series[n - 1].v
    IN  [i \in 1..k |->
            series[n].v
            + (IF config.damped_trend THEN step ELSE i * step)
            + (IF config.seasonal = "add"
               THEN series[n - 12 + ((i - 1) % 12) + 1].v - series[n].v ELSE 0)]

\* the except branch returning str(e) alone
ForecastingErrorBare(detail) ==
    [forecast |-> Absent, model |-> Absent, error |-> Some(<< detail >>)]

\* the except branch: (None, None, f"Forecasting error: {str(e)}")
ForecastingError(detail) ==
    [forecast |-> Absent, model |-> Absent, error |-> Some(<< "Forecasting error: ", detail >>)]

\* the index started at last_date itself
ForecastIndexFromLastDate(last_date, forecast_periods) ==
    LET days == DateRangeMS(last_date.d, forecast_periods)
    IN  [i \in 1..forecast_periods |-> TS(days[i], last_date.ns)]

\* forecast.index = pd.date_range(start=last_date + pd.DateOffset(months=1),
\*                                periods=forecast_periods, freq='MS')
ForecastIndex(last_date, forecast_periods) ==
    LET days == DateRangeMS(AddMonths(last_date.d, 1), forecast_periods)
    IN  [i \in 1..forecast_periods |-> TS(days[i], last_date.ns)]

generate_forecast(time_series, forecast_periods) ==
    LET n_obs == Len(time_series)
        config == ModelConfig(n_obs)
        values == SolverForecast(time_series, config, forecast_periods)
        index == ForecastIndex(time_series[n_obs].t, forecast_periods)
    IN  IF FitRaises(time_series, config) THEN ForecastingError("fit")
        ELSE [forecast |-> Some([i \in 1..forecast_periods |-> Entry(index[i], Num(values[i]))]),
              model |-> Some([config |-> config, nobs |-> n_obs]),
              error |-> Absent]

(***************************************************************************)
(* The spreadsheets a user may supply.                                     *)
(***************************************************************************)
\* n month starts from January 2023, date-typed
MonthlyStamps(n) == [i \in 1..n |-> Stamp(AddMonths(20230101, i - 1))]

\* n amounts
Amounts(n) == [i \in 1..n |-> Num(100 + 10 * i)]

\* the same with the cells at the rows in gaps empty
AmountsWithGaps(n, gaps) == [i \in 1..n |-> IF i \in gaps THEN NaN ELSE Num(100 + 10 * i)]

\* "2023-01-15" for the day 20230115
IsoText(d) == Str("-", << Year(d), Month(d), Day(d) >>)

\* "15/01/2023" for the day 20230115
DayFirstText(d) == Str("/", << Day(d), Month(d), Year(d) >>)

\* generate_sample_data: SampleRows dates SampleStepDays apart from 2023-01-01
\* (start_date + timedelta(days=30*i)), written as '%Y-%m-%d' text
SampleDay(i) == AddDays(20230101, SampleStepDays * (i - 1))

SampleDates == [i \in 1..SampleRows |-> IsoText(SampleDay(i))]

SampleTable == << Column("Date", SampleDates), Column("Revenue", Amounts(SampleRows)) >>

\* a two-column sheet of n monthly rows
CleanTable(n) == << Column("Date", MonthlyStamps(n)), Column("Revenue", Amounts(n)) >>

\* the same with an empty amount in row 2
GapTable(n) == << Column("Date", MonthlyStamps(n)), Column("Revenue", AmountsWithGaps(n, {2})) >>

\* no amount at all
BlankTable(n) == << Column("Date", MonthlyStamps(n)), Column("Revenue", AmountsWithGaps(n, 1..n)) >>

\* unordered dates, not at month starts, one of them twice, and an empty amount
MidMonthDays == << 20230315, 20230131, 20230131, 20230228, 20230430, 20230531, 20230615, 20231231 >>

MidMonthTable ==
    << Column("Date", [i \in 1..Len(MidMonthDays) |-> Stamp(MidMonthDays[i])]),
       Column("Revenue", AmountsWithGaps(Len(MidMonthDays), {5})) >>

\* dates as day-first text, and two numeric columns
TextDays == << 20230115, 20230215, 20230315, 20230415, 20230515, 20230620 >>

TextTable ==
    << Column("Units", [i \in 1..Len(TextDays) |-> Num(i)]),
       Column("Period", [i \in 1..Len(TextDays) |-> DayFirstText(TextDays[i])]),
       Column("Revenue", Amounts(Len(TextDays))) >>

\* ISO text dates with a last row that is no date
BadTailTable ==
    << Column("Date", [i \in 1..7 |-> IF i = 7 THEN Txt ELSE IsoText(AddMonths(20230101, i - 1))]),
       Column("Revenue", Amounts(7)) >>

\* no date column: a text column and two numeric columns
LabelTable ==
    << Column("Label", [i \in 1..6 |-> Txt]),
       Column("Revenue", Amounts(6)),
       Column("Units", [i \in 1..6 |-> Num(7 - i)]) >>

\* a date-typed column without a keyword in its name ahead of the keyword column
TwoDatesTable ==
    << Column("Booked", MonthlyStamps(6)),
       Column("Date", MonthlyStamps(6)),
       Column("Revenue", Amounts(6)) >>

\* a keyword column that holds no dates, a text column of ISO dates without a
\* keyword, and two numeric columns without a financial keyword
BookedTable ==
    << Column("Date", [i \in 1..6 |-> Txt]),
       Column("Booked", [i \in 1..6 |-> IsoText(AddMonths(20230115, i - 1))]),
       Column("Units", [i \in 1..6 |-> Num(i)]),
       Column("Count", Amounts(6)) >>

\* five rows of which the third is no date: four of five parse
FourFifthsTable ==
    << Column("Date", [i \in 1..5 |-> IF i = 3 THEN Txt ELSE IsoText(AddMonths(20230101, i - 1))]),
       Column("Revenue", Amounts(5)) >>

\* six rows of which the first is no date: five of six parse
LateGoodTable ==
    << Column("Date", [i \in 1..6 |-> IF i = 1 THEN Txt ELSE IsoText(AddMonths(20230101, i - 1))]),
       Column("Revenue", Amounts(6)) >>

\* a header cell that holds the number 2023: pandas labels the column with the
\* integer, for which the text "2023" stands
NumberHeaderTable ==
    << Column("Date", MonthlyStamps(6)), Column("2023", Amounts(6)) >>

\* a numeric column named Type
TypeTable ==
    << Column("Date", MonthlyStamps(6)),
       Column("Type", [i \in 1..6 |-> Num(i)]),
       Column("Revenue", Amounts(6)) >>

\* amounts that end at 0
ZeroTailTable ==
    << Column("Date", MonthlyStamps(6)),
       Column("Revenue", [i \in 1..6 |-> IF i = 6 THEN Num(0) ELSE Num(100 + 10 * i)]) >>

\* a numeric column of years under a date keyword, and amounts
YearsTable ==
    << Column("Period", [i \in 1..6 |-> Num(2018 + i)]), Column("Revenue", Amounts(6)) >>

\* eight rows of which every second has no date: half of the rows parse
SparseDatesTable ==
    << Column("Date", [i \in 1..8 |-> IF i % 2 = 0 THEN NaN ELSE Stamp(AddMonths(20230101, i - 1))]),
       Column("Revenue", Amounts(8)) >>

RowCounts == {1, 5, 6, 11, 12, 23, 24, MaxRows}
GapRowCounts == {6, 7, 24}

\* the bundled sample_financial_data_24months.xlsx
SampleFile == [kind |-> "sample", n |-> SampleRows]

\* every file of the model
AllFiles ==
    [kind : {"clean"}, n : RowCounts] \cup [kind : {"gap"}, n : GapRowCounts]
    \cup {[kind |-> "blank", n |-> 6], [kind |-> "midmonth", n |-> 8], [kind |-> "text", n |-> 6],
          [kind |-> "badtail", n |-> 7], [kind |-> "label", n |-> 6],
          [kind |-> "twodates", n |-> 6], [kind |-> "booked", n |-> 6],
          [kind |-> "fourfifths", n |-> 5], [kind |-> "lategood", n |-> 6],
          [kind |-> "numberheader", n |-> 6], [kind |-> "type", n |-> 6],
          [kind |-> "zerotail", n |-> 6], [kind |-> "sparse", n |-> 8],
          [kind |-> "years", n |-> 6],
          [kind |-> "empty", n |-> 0], [kind |-> "corrupt", n |-> 0]}

\* the files uploaded in the course of a session
Files ==
    {[kind |-> "clean", n |-> 1], [kind |-> "clean", n |-> 5], [kind |-> "gap", n |-> 6],
     [kind |-> "badtail", n |-> 7], [kind |-> "label", n |-> 6], [kind |-> "corrupt", n |-> 0],
     [kind |-> "numberheader", n |-> 6], [kind |-> "empty", n |-> 0]}

\* pd.read_excel(file, engine='openpyxl'); << >> is the empty frame
ReadExcel(file) ==
    IF file.kind = "clean" THEN CleanTable(file.n)
    ELSE IF file.kind = "gap" THEN GapTable(file.n)
    ELSE IF file.kind = "blank" THEN BlankTable(file.n)
    ELSE IF file.kind = "midmonth" THEN MidMonthTable
    ELSE IF file.kind = "text" THEN TextTable
    ELSE IF file.kind = "badtail" THEN BadTailTable
    ELSE IF file.kind = "label" THEN LabelTable
    ELSE IF file.kind = "sample" THEN SampleTable
    ELSE IF file.kind = "twodates" THEN TwoDatesTable
    ELSE IF file.kind = "booked" THEN BookedTable
    ELSE IF file.kind = "fourfifths" THEN FourFifthsTable
    ELSE IF file.kind = "lategood" THEN LateGoodTable
    ELSE IF file.kind = "numberheader" THEN NumberHeaderTable
    ELSE IF file.kind = "type" THEN TypeTable
    ELSE IF file.kind = "zerotail" THEN ZeroTailTable
    ELSE IF file.kind = "sparse" THEN SparseDatesTable
    ELSE IF file.kind = "years" THEN YearsTable
    ELSE << >>

\* load_excel_file: (df, None) or (None, message)
load_excel_file(file) ==
    IF file.kind = "corrupt" THEN [df |-> Absent, error |-> Some("Error reading file")]
    ELSE IF ReadExcel(file) = << >> THEN [df |-> Absent, error |-> Some("The uploaded file is empty.")]
    ELSE [df |-> Some(ReadExcel(file)), error |-> Absent]

(***************************************************************************)
(* Results: metrics and the CSV export.  A mean and a growth rate are       *)
(* kept as fractions num/den.                                               *)
(***************************************************************************)
\* series.sum() of the first i values
RECURSIVE SumValues(_, _)
SumValues(series, i) == IF i = 0 THEN 0 ELSE series[i].v + SumValues(series, i - 1)

\* the mean taken over one value less than the series holds
MeanBesselCorrected(series) == [num |-> SumValues(series, Len(series)), den |-> Len(series) - 1]

\* series.mean()
Mean(series) == [num |-> SumValues(series, Len(series)), den |-> Len(series)]

\* a / b in floating point: a division by zero gives inf, -inf or nan and does
\* not raise
Divide(a, b) ==
    IF b # 0 THEN [kind |-> "finite", num |-> a, den |-> b]
    ELSE IF a > 0 THEN [kind |-> "inf", num |-> 1, den |-> 0]
    ELSE IF a < 0 THEN [kind |-> "inf", num |-> -1, den |-> 0]
    ELSE [kind |-> "nan", num |-> 0, den |-> 0]

calculate_metrics(historical_data, forecast_data) ==
    [historical_avg |-> Mean(historical_data),
     forecast_avg |-> Mean(forecast_data),
     growth_rate |-> Divide((forecast_data[Len(forecast_data)].v
                                - historical_data[Len(historical_data)].v) * 100,
                            historical_data[Len(historical_data)].v),
     projected_total |-> SumValues(forecast_data, Len(forecast_data)),
     historical_total |-> SumValues(historical_data, Len(historical_data)),
     forecast_periods |-> Len(forecast_data)]

\* f"{growth_rate:+.1f}%": what is shown for the rate
GrowthText(rate) ==
    [shown |-> IF rate.kind = "finite" THEN "number"
               ELSE IF rate.kind = "nan" THEN "+nan%"
               ELSE IF rate.num > 0 THEN "+inf%" ELSE "-inf%",
     rate |-> rate]

\* a dict display {..., k: v}: a key that is already present keeps its place
\* and takes the new value
RECURSIVE DictSet(_, _, _)
DictSet(d, k, v) ==
    IF d = << >> THEN << << k, v >> >>
    ELSE IF Head(d)[1] = k THEN << << k, v >> >> \o Tail(d)
    ELSE << Head(d) >> \o DictSet(Tail(d), k, v)

\* pd.to_datetime(column).dt.strftime('%d/%m/%Y') of one element: a timestamp
\* gives its day, a number is read as nanoseconds since 1970-01-01
FormatCsvDate(x) ==
    IF x.k = "ts" THEN DayFirstText(x.x) ELSE DayFirstText(19700101)

\* pd.DataFrame({'Date': ..., value_col_name: ..., 'Type': ...}) over the rows
\* of history and forecast, nh of them history
CombinedFrame(both, nh, value_col_name) ==
    DictSet(DictSet(DictSet(<< >>,
        "Date", [i \in 1..Len(both) |-> Stamp(both[i].t.d)]),
        value_col_name, [i \in 1..Len(both) |-> Num(both[i].v)]),
        "Type", [i \in 1..Len(both) |-> IF i <= nh THEN "Historical" ELSE "Forecast"])

\* the Date column formatted, and to_csv(index=False): the header and the n rows
ToCsv(combined_df, n) ==
    [header |-> [c \in 1..Len(combined_df) |-> combined_df[c][1]],
     rows |-> [i \in 1..n |->
                  [c \in 1..Len(combined_df) |->
                      IF combined_df[c][1] = "Date"
                      THEN FormatCsvDate(combined_df[c][2][i])
                      ELSE combined_df[c][2][i]]]]

create_download_csv(historical_data, forecast_data, value_col_name) ==
    ToCsv(CombinedFrame(historical_data \o forecast_data, Len(historical_data), value_col_name),
          Len(historical_data) + Len(forecast_data))

(***************************************************************************)
(* The PDF report.  Rasterising the chart (chart_fig.write_image) and      *)
(* embedding the image (pdf.image) are external; whether they work is a    *)
(* property of the installation.                                           *)
(***************************************************************************)
ChartEngines == {"ok", "write_image raises", "image raises"}

\* the with block of create_pdf_report: NamedTemporaryFile(delete=False) creates
\* the image file, and os.unlink is reached only when neither call raised
ChartExport(engine) ==
    [raised |-> engine # "ok", left |-> IF engine = "ok" THEN 0 ELSE 1]

\* f"{abs(growth_rate):.1f}% {growth_direction}" of the summary, and
\* f"{growth_rate:+.1f}%" of the metric box
PdfGrowthTexts(rate) ==
    [summary |-> IF rate.kind = "finite" THEN "number"
                 ELSE IF rate.kind = "nan" THEN "nan% decrease"
                 ELSE IF rate.num > 0 THEN "inf% increase" ELSE "inf% decrease",
     box |-> GrowthText(rate).shown]

\* create_pdf_report: the texts of the report when it returns, the exception
\* when it raises, and the image files it leaves behind
create_pdf_report(metrics, engine) ==
    [pdf |-> IF ChartExport(engine).raised THEN Absent ELSE Some(PdfGrowthTexts(metrics.growth_rate)),
     raised |-> ChartExport(engine).raised,
     left |-> ChartExport(engine).left]

\* the PDF column of Step 4: the download button, or the warning of the except
\* branch
PdfColumn(step4, engine) ==
    IF step4 = Absent THEN "none"
    ELSE IF ChartExport(engine).raised THEN "PDF generation unavailable"
    ELSE "Download PDF Report"

(***************************************************************************)
(* The session: widgets, st.session_state, and what the last script run    *)
(* rendered.                                                               *)
(***************************************************************************)
VARIABLES
    uploaded_file,   \* the file in st.file_uploader, optional
    use_sample,      \* the "Use sample data" checkbox
    date_widget,     \* the Date Column selectbox: optional [id, sel]
    value_widget,    \* the Value Column selectbox: optional [id, sel]
    session_state,   \* st.session_state
    view,            \* what the last script run rendered
    gen,             \* the pipeline calls of the last action, if it clicked Generate
    chart_engine,    \* the chart export of the installation, one of ChartEngines
    pdf,             \* the PDF column of Step 4 in the last script run
    temp_files       \* the chart images in the temporary directory

vars == << uploaded_file, use_sample, date_widget, value_widget, session_state, view, gen,
           chart_engine, pdf, temp_files >>

\* the session state with no default for the horizon
InitialSessionStateNoHorizon ==
    [df |-> None, forecast_generated |-> FALSE, date_col |-> None, value_col |-> None,
     forecast_months |-> 0,
     time_series |-> Absent, forecast |-> Absent, model |-> Absent]

\* lines 1376-1386; time_series, forecast and model are not keys of the session
\* state until a forecast is stored
InitialSessionState ==
    [df |-> None, forecast_generated |-> FALSE, date_col |-> None, value_col |-> None,
     forecast_months |-> DefaultHorizon,
     time_series |-> Absent, forecast |-> Absent, model |-> Absent]

\* load_excel_file of every file, computed once
LoadedOf == [f \in {g : g \in AllFiles} |-> load_excel_file(f)]

\* the load that falls back on the bundled sample when the upload cannot be read
LoadDataSampleFallback(sample, upload) ==
    IF sample THEN [file |-> Some(SampleFile), status |-> << "success", "Sample data loaded" >>]
    ELSE IF upload # Absent
    THEN IF LoadedOf[upload[1]].error # Absent
         THEN [file |-> Some(SampleFile), status |-> << "error", LoadedOf[upload[1]].error[1] >>]
         ELSE [file |-> upload, status |-> << "success", "uploaded_file.name" >>]
    ELSE [file |-> Absent, status |-> << >>]

\* the branch "Load data based on selection": the file whose frame is df
LoadData(sample, upload) ==
    IF sample THEN [file |-> Some(SampleFile), status |-> << "success", "Sample data loaded" >>]
    ELSE IF upload # Absent
    THEN IF LoadedOf[upload[1]].error # Absent
         THEN [file |-> Absent, status |-> << "error", LoadedOf[upload[1]].error[1] >>]
         ELSE [file |-> upload, status |-> << "success", "uploaded_file.name" >>]
    ELSE [file |-> Absent, status |-> << >>]

\* st.selectbox: a widget keeps the user's choice as long as it is rendered with
\* the same identity (label, options, help); otherwise it shows its first option
Selectbox(widget, id) ==
    IF widget # Absent /\ widget[1].id = id THEN widget[1] ELSE [id |-> id, sel |-> id[2][1]]

Differs(a, b) == a # b

DateWidgetId(df) ==
    IF detect_date_column(df) # None
    THEN << "auto-detected",
            << detect_date_column(df) >> \o SelectSeq2(ColumnNames(df), Differs, detect_date_column(df)) >>
    ELSE << "please select", ColumnNames(df) >>

ValueWidgetId(df, date_col) ==
    LET numeric_columns == detect_numeric_columns(df, detect_date_column(df))
        suggested_value_col == suggest_value_column(numeric_columns)
    IN  IF Len(numeric_columns) >= 1
        THEN IF suggested_value_col # None
             THEN << "auto-suggested",
                     << suggested_value_col >> \o SelectSeq2(numeric_columns, Differs, suggested_value_col) >>
             ELSE << "numeric", numeric_columns >>
        ELSE << "no numeric columns found", SelectSeq2(ColumnNames(df), Differs, date_col) >>

\* valid_count of the date validation of Step 1
ValidDateCount(df, date_col) ==
    NotNaCount(to_datetime(Cells(df, date_col), infer_date_format(Cells(df, date_col))))

\* validation without the check that a date parses
ValidationPassedAnyDate(df, date_col, value_col) ==
    /\ (IsNumericDtype(Cells(df, value_col)) \/ ~to_numeric_raises(Cells(df, value_col)))
    /\ date_col # value_col

\* validation without the check for a duplicate column selection
ValidationPassedSameColumn(df, date_col, value_col) ==
    /\ ValidDateCount(df, date_col) # 0
    /\ (IsNumericDtype(Cells(df, value_col)) \/ ~to_numeric_raises(Cells(df, value_col)))

\* validation_passed at the Generate button
ValidationPassed(df, date_col, value_col) ==
    /\ ValidDateCount(df, date_col) # 0
    /\ (IsNumericDtype(Cells(df, value_col)) \/ ~to_numeric_raises(Cells(df, value_col)))
    /\ date_col # value_col

\* the note "Only k/n rows have valid dates", which leaves validation_passed alone
DateWarning(df, date_col) ==
    /\ ValidDateCount(df, date_col) # 0
    /\ ValidDateCount(df, date_col) * 10 < NumRows(df) * 8

\* the model indicator of Step 1
ModelIndicator(n_months) ==
    IF n_months >= SeasonalMinObs THEN "using full seasonal model"
    ELSE IF n_months >= DampedMinObs THEN "using trend model"
    ELSE IF n_months >= IndicatorMinObs THEN "basic trend model"
    ELSE "Minimum 6 months required"

\* Step 4 renders the stored results under the label session_state.value_col;
\* the metrics, the growth tile and the downloads are computed from these three
Step4(ss) ==
    IF ss.forecast_generated /\ ss.time_series # Absent
    THEN Some([time_series |-> ss.time_series[1], forecast |-> ss.forecast[1], label |-> ss.value_col])
    ELSE Absent

WelcomeView(status) ==
    [page |-> "welcome", status |-> status, enabled |-> FALSE, indicator |-> "",
     message |-> Absent, step4 |-> Absent]

\* the block "if generate_clicked and validation_passed": the two calls, their
\* arguments and what they return
GenerateCalls(df, date_col, value_col, months) ==
    LET raised == prepare_raises(df, date_col, value_col)
        time_series == prepare_time_series(df, date_col, value_col)
        result == generate_forecast(time_series, months)
    IN  [rows |-> NumRows(df), date_col |-> date_col, value_col |-> value_col, horizon |-> months,
         raised |-> raised,
         series |-> IF raised THEN Absent ELSE Some(time_series),
         result |-> IF raised THEN Absent ELSE Some(result),
         stored |-> ~raised /\ result.error = Absent]

\* the results stored with the model of an earlier forecast kept
StoreResultsKeepModel(ss, calls) ==
    IF calls.stored
    THEN [ss EXCEPT !.time_series = calls.series,
                    !.forecast = calls.result[1].forecast,
                    !.model = IF ss.model = Absent THEN calls.result[1].model ELSE ss.model,
                    !.forecast_generated = TRUE]
    ELSE ss

\* the series stored before the error of generate_forecast is looked at
StoreResultsEarly(ss, calls) ==
    IF calls.raised THEN ss
    ELSE IF calls.stored
    THEN [ss EXCEPT !.time_series = calls.series,
                    !.forecast = calls.result[1].forecast,
                    !.model = calls.result[1].model,
                    !.forecast_generated = TRUE]
    ELSE [ss EXCEPT !.time_series = calls.series]

\* the else branch "Store results"
StoreResults(ss, calls) ==
    IF calls.stored
    THEN [ss EXCEPT !.time_series = calls.series,
                    !.forecast = calls.result[1].forecast,
                    !.model = calls.result[1].model,
                    !.forecast_generated = TRUE]
    ELSE ss

\* Steps 1 to 3 for every loadable file, every choice of columns and every
\* horizon, computed once
Loadable == {f : f \in {g \in AllFiles \cup {SampleFile} : load_excel_file(g).error = Absent}}

NamesOf(f) == SeqToSet(ColumnNames(ReadExcel(f)))

DateChoices == UNION {{<< f, dc >> : dc \in NamesOf(f)} : f \in Loadable}

ColumnChoices == UNION {{<< f, dc, vc >> : dc \in NamesOf(f), vc \in NamesOf(f)} : f \in Loadable}

CallChoices == {<< k[1], k[2], k[3], h >> : k \in ColumnChoices, h \in MinHorizon..MaxHorizon}

DetectionRaisesOf == [f \in Loadable |-> detection_raises(ReadExcel(f))]

DateIdOf == [f \in Loadable |-> DateWidgetId(ReadExcel(f))]

ValueIdOf == [k \in DateChoices |-> ValueWidgetId(ReadExcel(k[1]), k[2])]

IndicatorOf == [f \in Loadable |-> ModelIndicator(NumRows(ReadExcel(f)))]

PassedOf == [k \in ColumnChoices |-> ValidationPassed(ReadExcel(k[1]), k[2], k[3])]

CallsOf == [k \in CallChoices |-> GenerateCalls(ReadExcel(k[1]), k[2], k[3], k[4])]

\* the Generate block with the forecast of the session reused when one is stored
GenerateAndRenderCached(status, date_sel, value_sel, ss1, indicator, passed, calls, clicked) ==
    LET c == IF ss1.forecast_generated /\ calls.stored
             THEN [calls EXCEPT !.result = Some([calls.result[1] EXCEPT !.forecast = ss1.forecast])]
             ELSE calls
    IN  [dw |-> Some(date_sel), vw |-> Some(value_sel),
         ss |-> IF clicked /\ passed THEN StoreResults(ss1, c) ELSE ss1,
         view |-> [page |-> IF clicked /\ passed /\ c.raised THEN "exception" ELSE "workflow",
                   status |-> status,
                   enabled |-> passed,
                   indicator |-> indicator,
                   message |-> IF clicked /\ passed /\ ~c.raised THEN c.result[1].error ELSE Absent,
                   step4 |-> IF clicked /\ passed
                             THEN (IF c.raised THEN Absent ELSE Step4(StoreResults(ss1, c)))
                             ELSE Step4(ss1)],
         gen |-> IF clicked /\ passed THEN Some(c) ELSE Absent,
         rerun |-> clicked /\ passed /\ c.stored]

\* from the Generate block to the end of the page: the results are stored, the
\* message of a failed forecast is shown, Step 4 is rendered
GenerateAndRender(status, date_sel, value_sel, ss1, indicator, passed, calls, clicked) ==
    [dw |-> Some(date_sel), vw |-> Some(value_sel),
     ss |-> IF clicked /\ passed THEN StoreResults(ss1, calls) ELSE ss1,
     view |-> [page |-> IF clicked /\ passed /\ calls.raised THEN "exception" ELSE "workflow",
               status |-> status,
               enabled |-> passed,
               indicator |-> indicator,
               message |-> IF clicked /\ passed /\ ~calls.raised
                           THEN calls.result[1].error ELSE Absent,
               step4 |-> IF clicked /\ passed
                         THEN (IF calls.raised THEN Absent ELSE Step4(StoreResults(ss1, calls)))
                         ELSE Step4(ss1)],
     gen |-> IF clicked /\ passed THEN Some(calls) ELSE Absent,
     rerun |-> clicked /\ passed /\ calls.stored]

\* the selection is stored, validated, and the Generate button drawn
ValidateSelection(f, status, date_sel, value_sel, months, ss, clicked) ==
    GenerateAndRender(status, date_sel, value_sel,
                      [ss EXCEPT !.date_col = date_sel.sel, !.value_col = value_sel.sel,
                                 !.forecast_months = months],
                      IndicatorOf[f],
                      PassedOf[<< f, date_sel.sel, value_sel.sel >>],
                      CallsOf[<< f, date_sel.sel, value_sel.sel, months >>],
                      clicked)

\* the Value Column selectbox
SelectValueColumn(f, status, date_sel, vw, months, ss, clicked) ==
    ValidateSelection(f, status, date_sel, Selectbox(vw, ValueIdOf[<< f, date_sel.sel >>]),
                      months, ss, clicked)

\* the Date Column selectbox
SelectDateColumn(f, status, dw, vw, months, ss, clicked) ==
    SelectValueColumn(f, status, Selectbox(dw, DateIdOf[f]), vw, months, ss, clicked)

\* the welcome page when no data is loaded, the workflow otherwise; an
\* exception of the auto-detection ends the run before Step 1 is rendered
RenderPage(data, dw, vw, months, ss, clicked) ==
    IF data.file = Absent
    THEN [dw |-> Absent, vw |-> Absent, ss |-> ss, view |-> WelcomeView(data.status),
          gen |-> Absent, rerun |-> FALSE]
    ELSE IF DetectionRaisesOf[data.file[1]]
    THEN [dw |-> Absent, vw |-> Absent, ss |-> ss,
          view |-> [page |-> "exception", status |-> data.status, enabled |-> FALSE,
                    indicator |-> "", message |-> Absent, step4 |-> Absent],
          gen |-> Absent, rerun |-> FALSE]
    ELSE SelectDateColumn(data.file[1], data.status, dw, vw, months, ss, clicked)

\* one run of main() from top to bottom
ScriptRun(sample, upload, dw, vw, months, ss, clicked) ==
    RenderPage(LoadData(sample, upload), dw, vw, months, ss, clicked)

\* the run that follows st.rerun(), if the first run called it
Rerun(sample, upload, months, first) ==
    IF first.rerun
    THEN ScriptRun(sample, upload, first.dw, first.vw, months, first.ss, FALSE)
    ELSE first

\* a user interaction: the script runs, and runs once more after st.rerun(),
\* which ends the first run ahead of Step 4; the run that renders Step 4 calls
\* create_pdf_report
Interact(sample, upload, dw, vw, months, clicked) ==
    \E first \in {ScriptRun(sample, upload, dw, vw, months, session_state, clicked)} :
        \E last \in {Rerun(sample, upload, months, first)} :
            /\ uploaded_file' = upload
            /\ use_sample' = sample
            /\ date_widget' = last.dw
            /\ value_widget' = last.vw
            /\ session_state' = last.ss
            /\ view' = last.view
            /\ gen' = first.gen
            /\ chart_engine' = chart_engine
            /\ pdf' = PdfColumn(last.view.step4, chart_engine)
            /\ temp_files + (IF last.view.step4 = Absent THEN 0 ELSE ChartExport(chart_engine).left)
                   <= MaxTempFiles
            /\ temp_files' = temp_files
                   + (IF last.view.step4 = Absent THEN 0 ELSE ChartExport(chart_engine).left)

Init ==
    /\ uploaded_file = Absent
    /\ use_sample = FALSE
    /\ date_widget = Absent
    /\ value_widget = Absent
    /\ session_state = InitialSessionState
    /\ view = WelcomeView(<< >>)
    /\ gen = Absent
    /\ chart_engine \in ChartEngines
    /\ pdf = "none"
    /\ temp_files = 0

Upload ==
    \E f \in Files :
        /\ uploaded_file # Some(f)
        /\ Interact(use_sample, Some(f), date_widget, value_widget,
                    session_state.forecast_months, FALSE)

RemoveUpload ==
    /\ uploaded_file # Absent
    /\ Interact(use_sample, Absent, date_widget, value_widget,
                session_state.forecast_months, FALSE)

ToggleSample ==
    Interact(~use_sample, uploaded_file, date_widget, value_widget,
             session_state.forecast_months, FALSE)

SelectDate ==
    /\ date_widget # Absent
    /\ \E c \in SeqToSet(date_widget[1].id[2]) :
        /\ c # date_widget[1].sel
        /\ Interact(use_sample, uploaded_file, Some([date_widget[1] EXCEPT !.sel = c]),
                    value_widget, session_state.forecast_months, FALSE)

SelectValue ==
    /\ value_widget # Absent
    /\ \E c \in SeqToSet(value_widget[1].id[2]) :
        /\ c # value_widget[1].sel
        /\ Interact(use_sample, uploaded_file, date_widget,
                    Some([value_widget[1] EXCEPT !.sel = c]),
                    session_state.forecast_months, FALSE)

SetHorizon ==
    /\ view.page # "welcome"
    /\ date_widget # Absent
    /\ \E h \in MinHorizon..MaxHorizon :
        /\ h # session_state.forecast_months
        /\ Interact(use_sample, uploaded_file, date_widget, value_widget, h, FALSE)

ClickGenerate ==
    /\ view.enabled
    /\ Interact(use_sample, uploaded_file, date_widget, value_widget,
                session_state.forecast_months, TRUE)

Next ==
    \/ Upload
    \/ RemoveUpload
    \/ ToggleSample
    \/ SelectDate
    \/ SelectValue
    \/ SetHorizon
    \/ ClickGenerate

Spec == Init /\ [][Next]_vars

(***************************************************************************)
(* The pipeline on every file of the model: a session in which a file has  *)
(* been loaded and the columns and the horizon chosen, and in which the    *)
(* user then clicks Generate.                                              *)
(***************************************************************************)
Configured(f, dc, vc, h) ==
    ScriptRun(f = SampleFile, IF f = SampleFile THEN Absent ELSE Some(f),
              Some([id |-> DateIdOf[f], sel |-> dc]),
              Some([id |-> ValueIdOf[<< f, dc >>], sel |-> vc]),
              h, InitialSessionState, FALSE)

PipelineInit ==
    \E f \in {g \in Loadable : ~DetectionRaisesOf[g]} :
        \E dc \in SeqToSet(DateIdOf[f][2]) :
            \E vc \in SeqToSet(ValueIdOf[<< f, dc >>][2]) :
                \E h \in MinHorizon..MaxHorizon :
                    \E run \in {Configured(f, dc, vc, h)} :
                        /\ use_sample = (f = SampleFile)
                        /\ uploaded_file = (IF f = SampleFile THEN Absent ELSE Some(f))
                        /\ date_widget = run.dw
                        /\ value_widget = run.vw
                        /\ session_state = run.ss
                        /\ view = run.view
                        /\ gen = Absent
                        /\ chart_engine \in ChartEngines
                        /\ pdf = "none"
                        /\ temp_files = 0

PipelineNext == ClickGenerate

PipelineSpec == PipelineInit /\ [][PipelineNext]_vars

(***************************************************************************)
(* Properties.                                                             *)
(***************************************************************************)
\* the file whose frame the script works on
CurrentFile == IF use_sample THEN SampleFile ELSE uploaded_file[1]

\* the last action clicked Generate and prepare_time_series returned a series
SeriesBuilt == gen # Absent /\ ~gen[1].raised

\* the last action clicked Generate and generate_forecast returned a forecast
ForecastReturned == gen # Absent /\ gen[1].stored

MonthIndex(d) == Year(d) * 12 + Month(d)

LastOf(series) == series[Len(series)]

\* the stored artifacts of a session state
ResultsOf(ss) == << ss.time_series, ss.forecast, ss.model, ss.forecast_generated >>

\* C1: the model variant is a function of the length n of the series alone:
\* trend + seasonal (period 12) + damping iff n >= 24, trend + damping without
\* seasonal iff 12 <= n < 24, trend alone iff n < 12.
C1_VariantFromLength ==
    ForecastReturned =>
        LET n == Len(gen[1].series[1])
            m == gen[1].result[1].model[1]
            seasonal == m.config.seasonal = "add" /\ m.config.seasonal_periods = 12
            plain == m.config.seasonal = "None"
        IN  /\ m.nobs = n
            /\ m.config.trend = "add"
            /\ (seasonal /\ m.config.damped_trend) <=> (n >= 24)
            /\ (plain /\ m.config.damped_trend) <=> (n >= 12 /\ n < 24)
            /\ (plain /\ ~m.config.damped_trend) <=> (n < 12)

\* a 24-row sheet cleaned to 23 entries is forecast with the damped model
C1_Witness ==
    /\ ForecastReturned
    /\ gen[1].rows = 24
    /\ Len(gen[1].series[1]) = 23
    /\ gen[1].result[1].model[1].config = Damped

\* C2: a forecast that is returned for horizon h has exactly h points, dated h
\* consecutive month starts, all later than the last historical timestamp.
C2_ForecastIndex ==
    ForecastReturned =>
        LET f == gen[1].result[1].forecast[1]
            h == gen[1].horizon
        IN  /\ h \in 1..12
            /\ Len(f) = h
            /\ \A i \in 1..h : Day(f[i].t.d) = 1
            /\ \A i \in 1..(h - 1) : MonthIndex(f[i + 1].t.d) = MonthIndex(f[i].t.d) + 1
            /\ \A i \in 1..(h - 1) : TsLess(f[i].t, f[i + 1].t)
            /\ \A i \in 1..h : TsLess(LastOf(gen[1].series[1]).t, f[i].t)

\* twelve points forecast from a history that does not end at a month start
C2_Witness ==
    /\ ForecastReturned
    /\ gen[1].horizon = 12
    /\ Day(LastOf(gen[1].series[1]).t.d) # 1
    /\ Len(gen[1].result[1].forecast[1]) = 12

\* C3: the first forecast date is the first day of the month that follows the
\* month of the last historical timestamp, whatever its day of the month.
C3_FirstForecastMonth ==
    ForecastReturned =>
        gen[1].result[1].forecast[1][1].t.d = FirstOfNextMonth(LastOf(gen[1].series[1]).t.d)

\* C4: a Generate action on a table of fewer than 6 rows is rejected; neither
\* prepare_time_series nor generate_forecast is invoked on it.
C4_ShortTableRejected == gen # Absent => gen[1].rows >= 6

\* C5: building the series fails when fewer than 6 rows remain after cleaning,
\* so that generate_forecast is not called with a series shorter than 6 even
\* when the table has 6 rows or more.
C5_ShortSeriesRejected ==
    (SeriesBuilt /\ gen[1].rows >= 6) =>
        (gen[1].result = Absent \/ Len(gen[1].series[1]) >= 6)

\* C6: while the date column and the value column selected are the same, the
\* Generate button is disabled and no series is built and no forecast made.
C6_SameColumnRejected ==
    /\ (date_widget # Absent /\ value_widget # Absent /\ date_widget[1].sel = value_widget[1].sel)
           => (~view.enabled /\ gen = Absent)
    /\ gen # Absent => gen[1].date_col # gen[1].value_col

\* one numeric column chosen as date column and as value column
C6_Witness ==
    /\ date_widget # Absent
    /\ value_widget # Absent
    /\ date_widget[1].sel = value_widget[1].sel
    /\ IsNumericDtype(Cells(ReadExcel(CurrentFile), date_widget[1].sel))
    /\ session_state.date_col = session_state.value_col

\* C7: the series prepare_time_series returns holds exactly the rows whose date
\* parsed and whose value is a number, one entry per row (rows of equal
\* timestamp kept apart), in non-decreasing order of timestamp, nothing missing.
C7_SeriesIsCleanedRows ==
    SeriesBuilt =>
        LET df == ReadExcel(CurrentFile)
            dates == to_datetime(Cells(df, gen[1].date_col),
                                 infer_date_format(Cells(df, gen[1].date_col)))
            values == to_numeric(Cells(df, gen[1].value_col))
            kept == {i \in 1..NumRows(df) : dates[i] # NaT /\ ~IsNull(values[i])}
            series == gen[1].series[1]
        IN  /\ Len(series) = Cardinality(kept)
            /\ \A i \in kept :
                   Cardinality({j \in 1..Len(series) : series[j] = Entry(dates[i], values[i])})
                   = Cardinality({k \in kept : dates[k] = dates[i] /\ values[k] = values[i]})
            /\ \A j \in 1..(Len(series) - 1) : TsLeq(series[j].t, series[j + 1].t)
            /\ \A j \in 1..Len(series) : series[j].t # NaT /\ ~series[j].na

\* a series built from unordered rows, with two rows of one timestamp kept and a
\* row without amount dropped
C7_Witness ==
    /\ SeriesBuilt
    /\ Len(gen[1].series[1]) < gen[1].rows
    /\ \E j \in 1..(Len(gen[1].series[1]) - 1) :
           /\ gen[1].series[1][j].t = gen[1].series[1][j + 1].t
           /\ gen[1].series[1][j].v # gen[1].series[1][j + 1].v

\* C8 as stated: every series handed to the Forecast Engine has strictly
\* increasing timestamps and no missing value.
C8_StrictlyIncreasing ==
    (SeriesBuilt /\ gen[1].result # Absent) =>
        LET series == gen[1].series[1]
        IN  /\ \A j \in 1..(Len(series) - 1) : TsLess(series[j].t, series[j + 1].t)
            /\ \A j \in 1..Len(series) : ~series[j].na

\* C8 amended: every series handed to the Forecast Engine has non-decreasing
\* timestamps (entries may share a timestamp) and no missing value.
C8_NonDecreasing ==
    (SeriesBuilt /\ gen[1].result # Absent) =>
        LET series == gen[1].series[1]
        IN  /\ \A j \in 1..(Len(series) - 1) : ~TsLess(series[j + 1].t, series[j].t)
            /\ \A j \in 1..Len(series) : ~series[j].na /\ series[j].t # NaT

\* a forecast made from a series of which two entries share a timestamp
C8_Witness ==
    /\ ForecastReturned
    /\ \E j \in 1..(Len(gen[1].series[1]) - 1) :
           gen[1].series[1][j].t.d = gen[1].series[1][j + 1].t.d

\* C9: generate_forecast returns either (forecast, model, no error) or (no
\* forecast, no model, a message that begins "Forecasting error:"), and raises
\* nothing; on an error the caller shows the message and stores no result.
C9_ErrorReturnedNotRaised ==
    [][(gen' # Absent /\ gen'[1].result # Absent) =>
          LET r == gen'[1].result[1]
          IN  /\ \/ r.error = Absent /\ r.forecast # Absent /\ r.model # Absent
                 \/ /\ r.error # Absent /\ r.forecast = Absent /\ r.model = Absent
                    /\ Len(r.error[1]) > 0
                    /\ r.error[1][1] = "Forecasting error: "
              /\ view'.page = "workflow"
              /\ r.error # Absent =>
                     /\ view'.message = r.error
                     /\ ResultsOf(session_state') = ResultsOf(session_state)]_vars

\* generate_forecast returned an error in a session that holds earlier results
C9_Witness ==
    /\ gen # Absent
    /\ gen[1].result # Absent
    /\ gen[1].result[1].error # Absent
    /\ view.message = gen[1].result[1].error
    /\ session_state.forecast_generated

SelectionCalls(f, ss) == CallsOf[<< f, ss.date_col, ss.value_col, ss.forecast_months >>]

\* Step 4, where it is rendered, shows what the selected columns and horizon of
\* the session state give
Step4IsCurrent(f, ss, v) ==
    v.step4 # Absent =>
        /\ PassedOf[<< f, ss.date_col, ss.value_col >>]
        /\ SelectionCalls(f, ss).stored
        /\ v.step4[1].time_series = SelectionCalls(f, ss).series[1]
        /\ v.step4[1].forecast = SelectionCalls(f, ss).result[1].forecast[1]
        /\ Len(v.step4[1].forecast) = ss.forecast_months
        /\ v.step4[1].label = ss.value_col

\* C11: once a forecast is shown, a change of the date column, the value column
\* or the horizon (the table staying the same) leaves no results of the earlier
\* selection in Step 4: what is shown is computed from the current selection.
C11_SelectionChangeInvalidates ==
    [][(/\ view.page = "workflow"
        /\ view'.page = "workflow"
        /\ use_sample' = use_sample
        /\ uploaded_file' = uploaded_file
        /\ Step4IsCurrent(CurrentFile, session_state, view))
       => Step4IsCurrent(CurrentFile, session_state', view')]_vars

\* C12: a Generate action on a table that passed validation ends with stored
\* results or with a displayed error message, never with an exception that
\* leaves prepare_time_series uncaught.
C12_GenerateNeverRaises ==
    gen # Absent =>
        /\ ~gen[1].raised
        /\ view.page = "workflow"
        /\ (gen[1].stored \/ view.message # Absent)

\* the least element of a set of numbers
MinOf(S) == CHOOSE x \in S : \A y \in S : x <= y

\* detected_date_col, as the Date Column selectbox shows it
DetectedDate == IF date_widget[1].id[1] = "auto-detected" THEN date_widget[1].id[2][1] ELSE None

\* a column passes the test of detect_date_column
QualifiesAsDate(col) ==
    \/ IsDatetimeDtype(col.cells)
    \/ ~IsNumericDtype(col.cells) /\ ParsesAsDates(col.cells)

\* C14: detect_date_column returns the first qualifying column whose name holds
\* a date keyword, also when a qualifying column without keyword stands earlier
\* in the table; the first qualifying column when no keyword column qualifies;
\* None when no column qualifies.
C14_KeywordColumnFirst ==
    date_widget # Absent =>
        LET df == ReadExcel(CurrentFile)
            qualifying == {i \in 1..Len(df) : QualifiesAsDate(df[i])}
            keyword == {i \in qualifying : df[i].name \in date_keyword_names}
        IN  IF keyword # {} THEN DetectedDate = df[MinOf(keyword)].name
            ELSE IF qualifying # {} THEN DetectedDate = df[MinOf(qualifying)].name
            ELSE DetectedDate = None

\* the detected column stands behind a qualifying column without keyword
C14_Witness ==
    /\ date_widget # Absent
    /\ DetectedDate # None
    /\ \E i \in 1..Len(ReadExcel(CurrentFile)) :
           /\ QualifiesAsDate(ReadExcel(CurrentFile)[i])
           /\ ReadExcel(CurrentFile)[i].name \notin date_keyword_names
           /\ i < Col(ReadExcel(CurrentFile), DetectedDate)

\* suggested_value_col, as the Value Column selectbox shows it
SuggestedValue == IF value_widget[1].id[1] = "auto-suggested" THEN value_widget[1].id[2][1] ELSE None

\* the columns of df that are numeric or convert to numbers, the detected date
\* column left out
ValueCandidates(df, detected) ==
    {i \in 1..Len(df) :
        /\ df[i].name # detected
        /\ (IsNumericDtype(df[i].cells) \/ ~to_numeric_raises(df[i].cells))}

\* C15: the suggested value column is never the detected date column and is
\* numeric or convertible to numbers; it is the first such column with a
\* financial keyword in its name, or the first such column when none has one,
\* and None exactly when there is no such column.
C15_SuggestedValueColumn ==
    (date_widget # Absent /\ value_widget # Absent) =>
        LET df == ReadExcel(CurrentFile)
            candidates == ValueCandidates(df, DetectedDate)
            keyword == {i \in candidates : df[i].name \in value_keyword_names}
        IN  IF candidates = {} THEN SuggestedValue = None
            ELSE /\ SuggestedValue # None
                 /\ SuggestedValue # DetectedDate
                 /\ Col(df, SuggestedValue) \in candidates
                 /\ SuggestedValue = df[IF keyword # {} THEN MinOf(keyword) ELSE MinOf(candidates)].name

\* the suggested column has a keyword and stands behind a candidate without one
C15_Witness ==
    /\ date_widget # Absent
    /\ value_widget # Absent
    /\ SuggestedValue \in value_keyword_names
    /\ DetectedDate # None
    /\ \E i \in ValueCandidates(ReadExcel(CurrentFile), DetectedDate) :
           i < Col(ReadExcel(CurrentFile), SuggestedValue)

\* a table is loaded
FileLoaded == use_sample \/ (uploaded_file # Absent /\ LoadedOf[uploaded_file[1]].error = Absent)

\* C16: column detection raises on no loaded table: both selectboxes are drawn,
\* the detected date column and the suggested value column are columns of the
\* table or None, and on None the selectbox offers the columns for an explicit
\* choice.
C16_DetectionNeverRaises ==
    FileLoaded =>
        /\ date_widget # Absent
        /\ value_widget # Absent
        /\ DetectedDate \in NamesOf(CurrentFile) \cup {None}
        /\ SuggestedValue \in NamesOf(CurrentFile) \cup {None}
        /\ DetectedDate = None => SeqToSet(date_widget[1].id[2]) = NamesOf(CurrentFile)
        /\ SuggestedValue = None =>
               SeqToSet(value_widget[1].id[2]) = NamesOf(CurrentFile) \ {date_widget[1].sel}

\* how many values of a sample parse under a format
ParsedUnder(sample, fmt) ==
    Cardinality({j \in 1..Len(sample) : ParseWith(sample[j], fmt) # 0})

\* the first format of the list under which at least num/den of the sample
\* parses, None when there is none or the sample is empty
FirstFormatAbove(sample, num, den) ==
    LET adopted == {i \in 1..Len(common_formats) :
                       ParsedUnder(sample, common_formats[i]) * den >= num * Len(sample)}
    IN  IF Len(sample) = 0 \/ adopted = {} THEN None ELSE common_formats[MinOf(adopted)]

\* the columns of the loaded table that are neither date-typed nor numeric
TextColumns ==
    {i \in 1..Len(ReadExcel(CurrentFile)) :
        /\ ~IsDatetimeDtype(ReadExcel(CurrentFile)[i].cells)
        /\ ~IsNumericDtype(ReadExcel(CurrentFile)[i].cells)}

\* the rows of a column that parse as dates in detect_date_column
ParsedCount(cells) == NotNaCount(to_datetime(cells, infer_date_format(cells)))

\* C17 as stated: a format is adopted as soon as at least 80% of the sample
\* parses under it, and a column that is not date-typed is a date candidate
\* exactly when at least 80% of its rows parse, the boundary included.
C17_EightyPercentInclusive ==
    date_widget # Absent =>
        \A i \in TextColumns :
            LET cells == ReadExcel(CurrentFile)[i].cells
            IN  /\ infer_date_format(cells)
                       = FirstFormatAbove(HeadN(DropNull(cells), SampleSize), 8, 10)
                /\ QualifiesAsDate(ReadExcel(CurrentFile)[i])
                       <=> ParsedCount(cells) * 10 >= 8 * Len(cells)

\* C17 amended: a format is adopted when all values of the sample parse under
\* it (formats tried in list order), and a column that is neither date-typed
\* nor numeric is a date candidate exactly when more than 80% of the rows of
\* the table parse, the boundary excluded.
C17_AllSampleAndMoreThanEighty ==
    date_widget # Absent =>
        \A i \in TextColumns :
            LET cells == ReadExcel(CurrentFile)[i].cells
            IN  /\ infer_date_format(cells)
                       = FirstFormatAbove(HeadN(DropNull(cells), SampleSize), 1, 1)
                /\ QualifiesAsDate(ReadExcel(CurrentFile)[i])
                       <=> ParsedCount(cells) * 10 > 8 * Len(cells)

\* a column of which exactly 80% of the rows parse, four of the five sampled
\* values among them, is not detected and no format is adopted for it
C17_Witness ==
    /\ date_widget # Absent
    /\ DetectedDate = None
    /\ \E i \in TextColumns :
           LET cells == ReadExcel(CurrentFile)[i].cells
           IN  /\ ParsedCount(cells) * 10 = 8 * Len(cells)
               /\ ParsedUnder(HeadN(DropNull(cells), SampleSize), common_formats[1]) = 4
               /\ infer_date_format(cells) = None

(***************************************************************************)
(* What Step 4 of the last run shows, where it is rendered.                *)
(***************************************************************************)
\* metrics = calculate_metrics(time_series, forecast)
Step4Metrics == calculate_metrics(view.step4[1].time_series, view.step4[1].forecast)

\* st.metric("Projected Growth", f"{metrics['growth_rate']:+.1f}%")
Step4GrowthTile == GrowthText(Step4Metrics.growth_rate)

\* csv_data = create_download_csv(time_series, forecast, value_col_display)
Step4Csv == create_download_csv(view.step4[1].time_series, view.step4[1].forecast, view.step4[1].label)

\* C18: for a history and a forecast that are not empty and a last historical
\* value other than 0, calculate_metrics gives the arithmetic means, the sums,
\* the growth rate (last forecast - last history) / last history * 100 and the
\* number of forecast points, which is the horizon of the Generate action that
\* made the forecast; history and forecast are left as they were.
C18_MetricsAreMeansAndSums ==
    (view.step4 # Absent /\ LastOf(view.step4[1].time_series).v # 0) =>
        LET h == view.step4[1].time_series
            f == view.step4[1].forecast
            m == Step4Metrics
        IN  /\ m.historical_total = SumValues(h, Len(h))
            /\ m.projected_total = SumValues(f, Len(f))
            /\ m.historical_avg.num = m.historical_total
            /\ m.historical_avg.den = Len(h)
            /\ m.forecast_avg.num = m.projected_total
            /\ m.forecast_avg.den = Len(f)
            /\ m.growth_rate.kind = "finite"
            /\ m.growth_rate.num = (LastOf(f).v - LastOf(h).v) * 100
            /\ m.growth_rate.den = LastOf(h).v
            /\ m.forecast_periods = Len(f)
            /\ ForecastReturned => m.forecast_periods = gen[1].horizon
            /\ h = session_state.time_series[1]
            /\ f = session_state.forecast[1]

\* metrics of a twelve-month forecast from a history of 24 months
C18_Witness ==
    /\ view.step4 # Absent
    /\ ForecastReturned
    /\ Len(view.step4[1].time_series) = 24
    /\ Step4Metrics.forecast_periods = 12
    /\ Step4Metrics.growth_rate.kind = "finite"
    /\ Step4Metrics.historical_total > 0

\* C13: the temporary chart image of create_pdf_report is gone when the call
\* returns and when it raises (chart rasterisation failing, image embedding
\* failing): no image file is left behind by a script run.
C13_TempFileRemoved == temp_files = 0

\* pdf_data = create_pdf_report(time_series, forecast, value_col_display, metrics, fig_pdf)
Step4Pdf == create_pdf_report(Step4Metrics, chart_engine)

\* the renderings of a growth rate that is infinite or undefined
UnguardedGrowthTexts ==
    {"+inf%", "-inf%", "+nan%", "inf% increase", "inf% decrease", "nan% decrease"}

\* C19: when the last historical value is 0, calculate_metrics does not fail and
\* gives an infinite or undefined growth rate, and neither the growth tile of
\* Step 4 nor the summary and the metric box of the PDF show that value.
C19_ZeroLastValueGuarded ==
    (view.step4 # Absent /\ LastOf(view.step4[1].time_series).v = 0) =>
        /\ Step4Metrics.growth_rate.kind \in {"inf", "nan"}
        /\ Step4GrowthTile.shown \notin UnguardedGrowthTexts
        /\ Step4Pdf.pdf # Absent =>
               /\ Step4Pdf.pdf[1].summary \notin UnguardedGrowthTexts
               /\ Step4Pdf.pdf[1].box \notin UnguardedGrowthTexts

\* C20: the exported CSV has the three columns Date, <value column name>, Type
\* and one row for each historical and each forecast point: the history in
\* chronological order tagged Historical, then the forecast in chronological
\* order tagged Forecast, whatever the name of the value column.
C20_CsvThreeColumns ==
    view.step4 # Absent =>
        LET h == view.step4[1].time_series
            f == view.step4[1].forecast
        IN  /\ Step4Csv.header = << "Date", view.step4[1].label, "Type" >>
            /\ Len(Step4Csv.rows) = Len(h) + Len(f)
            /\ \A i \in 1..Len(h) :
                   Step4Csv.rows[i] = << DayFirstText(h[i].t.d), Num(h[i].v), "Historical" >>
            /\ \A i \in 1..Len(f) :
                   Step4Csv.rows[Len(h) + i] = << DayFirstText(f[i].t.d), Num(f[i].v), "Forecast" >>
            /\ \A i \in 1..(Len(h) - 1) : TsLeq(h[i].t, h[i + 1].t)
            /\ \A i \in 1..(Len(f) - 1) : TsLeq(f[i].t, f[i + 1].t)

(***************************************************************************)
(* The CSV as text, and the text read back.                                *)
(***************************************************************************)
\* the decimal digits of a natural number
RECURSIVE Digits(_)
Digits(n) == IF n < 10 THEN << n >> ELSE Digits(n \div 10) \o << n % 10 >>

\* the natural number of a sequence of decimal digits
RECURSIVE FromDigits(_)
FromDigits(ds) ==
    IF ds = << >> THEN 0 ELSE FromDigits(SubSeq(ds, 1, Len(ds) - 1)) * 10 + ds[Len(ds)]

\* the text to_csv writes: the header line and the lines of the rows.  The Date
\* column was made text at line 1184 and the tags of Type are text; a value is a
\* float, and a whole number x is written as "x.0"
CsvText(csv) ==
    [header |-> csv.header,
     rows |-> [i \in 1..Len(csv.rows) |->
                  [c \in 1..Len(csv.header) |->
                      IF csv.header[c] \in {"Date", "Type"} THEN csv.rows[i][c]
                      ELSE [neg |-> csv.rows[i][c].x < 0,
                            int |-> Digits(IF csv.rows[i][c].x < 0
                                           THEN 0 - csv.rows[i][c].x ELSE csv.rows[i][c].x),
                            frac |-> << 0 >>]]]]

\* the text read back, column by column of the header: for each line the day of
\* its Date field under '%d/%m/%Y' (0 when the field is no such date), the
\* number of the field under the value column's name (ok is off when the field
\* is no number), and the tag
ReadCsv(text, value_col_name) ==
    LET column(name) == CHOOSE c \in 1..Len(text.header) : text.header[c] = name
    IN  [i \in 1..Len(text.rows) |->
            [date |-> IF value_col_name = "Date" THEN 0
                      ELSE ParseWith(text.rows[i][column("Date")], "%d/%m/%Y"),
             value |-> IF value_col_name \in {"Date", "Type"}
                           \/ text.rows[i][column(value_col_name)].frac # << 0 >>
                       THEN [ok |-> FALSE, x |-> 0]
                       ELSE [ok |-> TRUE,
                             x |-> IF text.rows[i][column(value_col_name)].neg
                                   THEN 0 - FromDigits(text.rows[i][column(value_col_name)].int)
                                   ELSE FromDigits(text.rows[i][column(value_col_name)].int)],
             type |-> text.rows[i][column("Type")]]]

\* C21: the CSV of create_download_csv, read back with its dates taken as
\* DD/MM/YYYY, gives row for row the (day, value, type) triples of the history
\* followed by the forecast.
C21_CsvRoundTrip ==
    view.step4 # Absent =>
        LET h == view.step4[1].time_series
            f == view.step4[1].forecast
            triples == [i \in 1..(Len(h) + Len(f)) |->
                           IF i <= Len(h)
                           THEN [date |-> h[i].t.d, value |-> [ok |-> TRUE, x |-> h[i].v],
                                 type |-> "Historical"]
                           ELSE [date |-> f[i - Len(h)].t.d,
                                 value |-> [ok |-> TRUE, x |-> f[i - Len(h)].v],
                                 type |-> "Forecast"]]
        IN  ReadCsv(CsvText(Step4Csv), view.step4[1].label) = triples

C23_HorizonInRange ==
    /\ session_state.forecast_months = 6
    /\ [](/\ session_state.forecast_months \in 1..12
          /\ gen # Absent =>
                 /\ gen[1].horizon \in 1..12
                 /\ gen[1].horizon = session_state.forecast_months)

\* generate_forecast called with the largest horizon
C23_Witness ==
    /\ gen # Absent
    /\ gen[1].result # Absent
    /\ gen[1].horizon = 12
    /\ session_state.forecast_months = 12

\* C24: load_excel_file returns either a table that is not empty and no error,
\* or no table and an error message, the latter for an unreadable and for an
\* empty file; while the load of the uploaded file fails, the welcome page is
\* shown with the message: no selectbox is drawn, nothing is validated, the
\* Generate button is absent and no pipeline call is made.
C24_LoadErrorBlocksWorkflow ==
    /\ \A f \in AllFiles :
           /\ LoadedOf[f].df = Absent <=> LoadedOf[f].error # Absent
           /\ LoadedOf[f].df # Absent => LoadedOf[f].df[1] # << >> /\ NumRows(LoadedOf[f].df[1]) > 0
           /\ LoadedOf[f].error # Absent <=> f.kind \in {"corrupt", "empty"}
    /\ (~use_sample /\ uploaded_file # Absent /\ LoadedOf[uploaded_file[1]].error # Absent) =>
           /\ view.page = "welcome"
           /\ view.status = << "error", LoadedOf[uploaded_file[1]].error[1] >>
           /\ date_widget = Absent
           /\ value_widget = Absent
           /\ ~view.enabled
           /\ view.step4 = Absent
           /\ gen = Absent

\* an unreadable file uploaded in a session that holds a forecast
C24_Witness ==
    /\ ~use_sample
    /\ uploaded_file # Absent
    /\ uploaded_file[1].kind = "corrupt"
    /\ LoadedOf[uploaded_file[1]].error # Absent
    /\ view.page = "welcome"
    /\ session_state.forecast_generated

\* C25: the table of generate_sample_data, which "Use sample data" loads, has
\* exactly 24 rows, each dated the first day of a month, the months being 24
\* consecutive calendar months with one row each.
C25_SampleMonthly ==
    use_sample =>
        LET days == [i \in 1..Len(SampleDates) |-> ParseWith(SampleDates[i], "%Y-%m-%d")]
        IN  /\ ReadExcel(CurrentFile) = SampleTable
            /\ Len(days) = 24
            /\ \A i \in 1..Len(days) : Day(days[i]) = 1
            /\ \A i \in 1..(Len(days) - 1) : MonthIndex(days[i + 1]) = MonthIndex(days[i]) + 1

\* C26: the variant the indicator of Step 1 announces from the row count of the
\* table is the variant generate_forecast selects for the series built from that
\* table, also when cleaning has dropped rows; under "Minimum 6 months required"
\* no variant is selected.
C26_IndicatorMatchesVariant ==
    ForecastReturned =>
        LET announced == IF view.indicator = "using full seasonal model" THEN Some(Seasonal)
                         ELSE IF view.indicator = "using trend model" THEN Some(Damped)
                         ELSE IF view.indicator = "basic trend model" THEN Some(Simple)
                         ELSE Absent
        IN  announced = Some(gen[1].result[1].model[1].config)

\* C27: the flag forecast_generated is off at the start of a session; whenever
\* it is on, a series, a forecast and a model are stored and every date of the
\* stored forecast follows the last timestamp of the stored series; the stored
\* artifacts change only in a Generate action that succeeds, which stores its own
\* series, forecast and model together; a Generate action that fails leaves the
\* flag as it was.
C27_StoredResultsFromOneGenerate ==
    /\ ~session_state.forecast_generated
    /\ [][/\ session_state'.forecast_generated =>
                /\ session_state'.time_series # Absent
                /\ session_state'.forecast # Absent
                /\ session_state'.model # Absent
                /\ \A i \in 1..Len(session_state'.forecast[1]) :
                       TsLess(LastOf(session_state'.time_series[1]).t,
                              session_state'.forecast[1][i].t)
          /\ ResultsOf(session_state') # ResultsOf(session_state) =>
                /\ gen' # Absent
                /\ gen'[1].stored
                /\ session_state'.forecast_generated
                /\ session_state'.time_series = gen'[1].series
                /\ session_state'.forecast = gen'[1].result[1].forecast
                /\ session_state'.model = gen'[1].result[1].model
          /\ (gen' # Absent /\ ~gen'[1].stored) =>
                session_state'.forecast_generated = session_state.forecast_generated]_vars

\* a session whose Generate actions have all failed: the last one was called
\* and stored nothing, and nothing is stored
C27_Witness ==
    /\ gen # Absent
    /\ gen[1].result # Absent
    /\ ~gen[1].stored
    /\ ~session_state.forecast_generated
    /\ session_state.time_series = Absent

\* C28: the results Step 4 shows were computed from the table that is loaded,
\* for some choice of its columns: after another file is uploaded, the upload
\* removed, or "Use sample data" toggled, results of an earlier table are not
\* shown until Generate succeeds on the table now loaded.
C28_ResultsOfLoadedTable ==
    view.step4 # Absent =>
        \E dc \in NamesOf(CurrentFile), vc \in NamesOf(CurrentFile) :
            LET calls == CallsOf[<< CurrentFile, dc, vc, Len(view.step4[1].forecast) >>]
            IN  /\ calls.stored
                /\ calls.series[1] = view.step4[1].time_series
                /\ calls.result[1].forecast[1] = view.step4[1].forecast

\* C29 as stated: the Generate button is enabled, and a click runs the
\* pipeline, exactly when the two columns differ, the value column is numeric
\* or numeric-coercible and at least 80% of the rows of the date column parse as
\* dates.
C29_EightyPercentBlocks ==
    /\ (date_widget # Absent /\ value_widget # Absent) =>
           LET df == ReadExcel(CurrentFile)
               values == Cells(df, value_widget[1].sel)
           IN  view.enabled <=>
                   /\ date_widget[1].sel # value_widget[1].sel
                   /\ (IsNumericDtype(values) \/ ~to_numeric_raises(values))
                   /\ ValidDateCount(df, date_widget[1].sel) * 10 >= 8 * NumRows(df)
    /\ gen # Absent =>
           ValidDateCount(ReadExcel(CurrentFile), gen[1].date_col) * 10
               >= 8 * NumRows(ReadExcel(CurrentFile))

\* C29 amended: the Generate button is enabled, and a click runs the pipeline,
\* exactly when the two columns differ, the value column is numeric or
\* numeric-coercible and at least one row of the date column parses as a date; a
\* date column of which fewer than 80% of the rows parse (but at least one)
\* only draws a message and does not block generation.
C29_OneDateSuffices ==
    /\ (date_widget # Absent /\ value_widget # Absent) =>
           LET df == ReadExcel(CurrentFile)
               values == Cells(df, value_widget[1].sel)
           IN  view.enabled <=>
                   /\ date_widget[1].sel # value_widget[1].sel
                   /\ (IsNumericDtype(values) \/ ~to_numeric_raises(values))
                   /\ ValidDateCount(df, date_widget[1].sel) > 0
    /\ gen # Absent =>
           LET df == ReadExcel(CurrentFile)
               values == Cells(df, gen[1].value_col)
           IN  /\ gen[1].date_col # gen[1].value_col
               /\ (IsNumericDtype(values) \/ ~to_numeric_raises(values))
               /\ ValidDateCount(df, gen[1].date_col) > 0

\* the pipeline has run on a table of which half of the rows have a date
C29_Witness ==
    /\ gen # Absent
    /\ view.enabled
    /\ ValidDateCount(ReadExcel(CurrentFile), gen[1].date_col) * 10 < 8 * NumRows(ReadExcel(CurrentFile))
    /\ gen[1].stored
    /\ Len(gen[1].series[1]) = 4

\* C30 as stated: detect_date_column leaves out a numeric-typed column only
\* when its sampled values all lie in [1900, 2100]; a numeric-typed column with
\* values outside that range is evaluated like any other column, so that one
\* whose values parse as dates makes the detection return a column.
C30_OnlyYearsExcluded ==
    date_widget # Absent =>
        LET df == ReadExcel(CurrentFile)
            numeric == {i \in 1..Len(df) : IsNumericDtype(df[i].cells)}
        IN  /\ \A i \in numeric : looks_like_years(df[i].cells) => DetectedDate # df[i].name
            /\ (\E i \in numeric : ~looks_like_years(df[i].cells) /\ ParsesAsDates(df[i].cells))
                   => DetectedDate # None

\* C30 amended: detect_date_column leaves out every numeric-typed column,
\* whether its sampled values lie in [1900, 2100] or not: the detected date
\* column is never numeric-typed and no numeric-typed column is evaluated as a
\* date candidate.
C30_NumericNeverCandidate ==
    date_widget # Absent =>
        LET df == ReadExcel(CurrentFile)
            numeric == {i \in 1..Len(df) : IsNumericDtype(df[i].cells)}
        IN  /\ \A i \in numeric : DetectedDate # df[i].name
            /\ DetectedDate = None <=>
                   \A i \in 1..Len(df) : i \in numeric \/ ~QualifiesAsDate(df[i])

\* a table of a numeric column of years and a numeric column of other values,
\* both of which would parse as dates: none is detected
C30_Witness ==
    /\ date_widget # Absent
    /\ DetectedDate = None
    /\ \E i \in 1..Len(ReadExcel(CurrentFile)) :
           /\ IsNumericDtype(ReadExcel(CurrentFile)[i].cells)
           /\ looks_like_years(ReadExcel(CurrentFile)[i].cells)
    /\ \E i \in 1..Len(ReadExcel(CurrentFile)) :
           /\ IsNumericDtype(ReadExcel(CurrentFile)[i].cells)
           /\ ~looks_like_years(ReadExcel(CurrentFile)[i].cells)
           /\ ParsesAsDates(ReadExcel(CurrentFile)[i].cells)

====
